---- MODULE Spec2Model ----
(***************************************************************************)
(* Authentication and authorization core of the NATS server               *)
(* (server/auth.go): configureAuthorization, checkAuthorization,           *)
(* isClientAuthorized, isRouterAuthorized, comparePasswords and the clone  *)
(* methods of the permission types.                                        *)
(***************************************************************************)
EXTENDS Integers, Sequences, FiniteSets, TLC

VARIABLES
    opts,          \* s.opts: the options currently applied to the server
    nkeys,         \* s.nkeys: map[string]*NkeyUser, or the nil map
    users,         \* s.users: map[string]*User, or the nil map
    authRequired,  \* s.info.AuthRequired
    clients,       \* the client structs: typ, opts, nonce, perms
    frames,        \* the activation of checkAuthorization of each client
    heap,          \* Permissions, SubjectPermission and []string storage
    src,           \* receiver of a clone call under test
    dst,           \* value returned by that clone call
    stage,         \* progress of the clone scenario
    kind,          \* which clone method the scenario exercises
    cmp,           \* the call of comparePasswords under test
    accepted,      \* history: per connection, the nonces over which a
                   \* signature was accepted, in the order of the attempts
    subs,          \* c.subs: the subscriptions of each client, by sid
    sl,            \* s.sl: the subscriptions in the routing index
    notices,       \* what c.sendErr sent to each client, in order
    created,       \* how many subscription objects were allocated
    sweep,         \* the activation of removeUnauthorizedSubs
    worker,        \* the SUB or UNSUB each client's own worker is processing
    cmu,           \* c.mu of each client: "", or "worker" or "sweep" holding it
    slMu,          \* the lock of s.sl: "", or "worker", "sweep" or "other" holding it
    optsMu,        \* s.optsMu: the connections whose worker holds it for reading
    mu             \* s.mu: the connection whose worker holds it, or ""

vars == <<opts, nkeys, users, authRequired, clients, frames, heap,
          src, dst, stage, kind, cmp, accepted,
          subs, sl, notices, created, sweep, worker, cmu, slMu, optsMu, mu>>

serverVars == <<opts, nkeys, users, authRequired>>
cloneVars == <<src, dst, stage, kind>>
compareVars == <<cmp>>
nonceVars == <<accepted>>
sweepVars == <<subs, sl, notices, created, sweep, worker, cmu, slMu>>
lockVars == <<optsMu, mu>>

----------------------------------------------------------------------------
(* Bounds *)

\* longest allow or deny list drawn as an input of the clone scenario
MaxLen == 2

\* most signatures accepted on one connection before it is left alone
MaxAttempts == 2

\* most subscription objects allocated in the sweep scenario
MaxSubs == 3

----------------------------------------------------------------------------
(* Strings handed to comparePasswords.  A string is described by whether   *)
(* it starts with bcryptPrefix, whether what follows the prefix is a       *)
(* well-formed cost, salt and digest, and its text: for a plain string the *)
(* characters themselves, for a hash the plaintext that was hashed.        *)

Str(t) == [pfx |-> FALSE, wf |-> FALSE, txt |-> t]
Bcrypt(t) == [pfx |-> TRUE, wf |-> TRUE, txt |-> t]
\* a string that starts with bcryptPrefix and is not a bcrypt hash
BadHash == [pfx |-> TRUE, wf |-> FALSE, txt |-> "garbage"]
Empty == Str("")

isBcrypt(password) == password.pfx

\* bcrypt.CompareHashAndPassword(hash, password) = nil
CompareHashAndPassword(hash, password) ==
    hash.wf /\ password = Str(hash.txt)

\* slip: when the hash comparison fails the strings are compared as they are
comparePasswords_Fallback(serverPassword, clientPassword) ==
    IF isBcrypt(serverPassword)
       /\ CompareHashAndPassword(serverPassword, clientPassword)
    THEN TRUE
    ELSE serverPassword = clientPassword

comparePasswords(serverPassword, clientPassword) ==
    IF isBcrypt(serverPassword)
    THEN CompareHashAndPassword(serverPassword, clientPassword)
    ELSE serverPassword = clientPassword

\* no call of comparePasswords is under test
NoCompare ==
    [stage |-> "off", secret |-> Empty, hashed |-> FALSE,
     serverPassword |-> Empty, clientPassword |-> Empty, ret |-> FALSE]

----------------------------------------------------------------------------
(* Storage.  Addresses are positive integers in one address space, Nil is  *)
(* the nil pointer and the nil slice.  heap.perm holds Permissions         *)
(* structs, heap.sp SubjectPermission structs and heap.arr the backing     *)
(* arrays of []string slices (an empty array is an empty non-nil slice).   *)

Nil == 0

Subjects == {"foo", "bar"}

NoObjects == [a \in {} |-> Nil]
EmptyHeap == [perm |-> NoObjects, sp |-> NoObjects, arr |-> NoObjects]

Used(h) == DOMAIN h.perm \cup DOMAIN h.sp \cup DOMAIN h.arr

\* the allocator: an address that holds no object
Fresh(h) ==
    CHOOSE a \in 1..(Cardinality(Used(h)) + 1) :
        /\ a \notin Used(h)
        /\ \A b \in 1..(a - 1) : b \in Used(h)

\* make([]string, n)
make(n) == [i \in 1..n |-> ""]

\* copy(d, s): the elements of s over the first positions of d
copy(d, s) == [i \in 1..Len(d) |-> IF i <= Len(s) THEN s[i] ELSE d[i]]

\* slip: clone.Allow = p.Allow, the slice is assigned and not copied
ShareList(h, a) == [h |-> h, ptr |-> a]

\* the slice field of the clone: a new array holding a copy of the list
CloneList(h, a) ==
    IF a = Nil THEN [h |-> h, ptr |-> Nil]
    ELSE LET n == Fresh(h)
         IN [h |-> [h EXCEPT !.arr = @ @@ (n :> copy(make(Len(h.arr[a])), h.arr[a]))],
             ptr |-> n]

\* slip: *clone = *p, the struct is copied with its two slices
SubjectPermission_cloneShallow(h, p) ==
    IF p = Nil THEN [h |-> h, ptr |-> Nil]
    ELSE LET c == Fresh(h)
         IN [h |-> [h EXCEPT !.sp = @ @@ (c :> h.sp[p])], ptr |-> c]

SubjectPermission_clone(h, p) ==
    IF p = Nil THEN [h |-> h, ptr |-> Nil]
    ELSE LET c == Fresh(h)
             h0 == [h EXCEPT !.sp = @ @@ (c :> [Allow |-> Nil, Deny |-> Nil])]
             al == CloneList(h0, h.sp[p].Allow)
             h1 == [al.h EXCEPT !.sp[c].Allow = al.ptr]
             dn == CloneList(h1, h.sp[p].Deny)
             h2 == [dn.h EXCEPT !.sp[c].Deny = dn.ptr]
         IN [h |-> h2, ptr |-> c]

Permissions_clone(h, p) ==
    IF p = Nil THEN [h |-> h, ptr |-> Nil]
    ELSE LET c == Fresh(h)
             h0 == [h EXCEPT !.perm = @ @@ (c :> [Publish |-> Nil, Subscribe |-> Nil])]
             pb == IF h.perm[p].Publish # Nil
                   THEN SubjectPermission_clone(h0, h.perm[p].Publish)
                   ELSE [h |-> h0, ptr |-> Nil]
             h1 == [pb.h EXCEPT !.perm[c].Publish = pb.ptr]
             sb == IF h.perm[p].Subscribe # Nil
                   THEN SubjectPermission_clone(h1, h.perm[p].Subscribe)
                   ELSE [h |-> h1, ptr |-> Nil]
             h2 == [sb.h EXCEPT !.perm[c].Subscribe = sb.ptr]
         IN [h |-> h2, ptr |-> c]

\* the storage reachable from a pointer
ListCells(h, a) == IF a = Nil THEN {} ELSE {a}
SPCells(h, p) ==
    IF p = Nil THEN {}
    ELSE {p} \cup ListCells(h, h.sp[p].Allow) \cup ListCells(h, h.sp[p].Deny)
PermCells(h, p) ==
    IF p = Nil THEN {}
    ELSE {p} \cup SPCells(h, h.perm[p].Publish) \cup SPCells(h, h.perm[p].Subscribe)

\* the arrays reachable from a pointer
SPLists(h, p) ==
    IF p = Nil THEN {}
    ELSE ListCells(h, h.sp[p].Allow) \cup ListCells(h, h.sp[p].Deny)
PermLists(h, p) ==
    IF p = Nil THEN {}
    ELSE SPLists(h, h.perm[p].Publish) \cup SPLists(h, h.perm[p].Subscribe)

\* the value behind a pointer; <<>> is absent, <<v>> is present with value v
ListVal(h, a) == IF a = Nil THEN <<>> ELSE <<h.arr[a]>>
SPVal(h, p) ==
    IF p = Nil THEN <<>>
    ELSE <<[Allow |-> ListVal(h, h.sp[p].Allow), Deny |-> ListVal(h, h.sp[p].Deny)]>>
PermVal(h, p) ==
    IF p = Nil THEN <<>>
    ELSE <<[Publish |-> SPVal(h, h.perm[p].Publish),
            Subscribe |-> SPVal(h, h.perm[p].Subscribe)]>>

\* the heap without the objects in cells
Release(h, cells) ==
    [perm |-> [a \in DOMAIN h.perm \ cells |-> h.perm[a]],
     sp |-> [a \in DOMAIN h.sp \ cells |-> h.sp[a]],
     arr |-> [a \in DOMAIN h.arr \ cells |-> h.arr[a]]]

----------------------------------------------------------------------------
(* Public keys, signatures and nonces.                                     *)

\* nkeys.FromPublicKey(k) returns no error
ValidPublicKeys == {"UK1", "UK2"}
FromPublicKeyOk(k) == k \in ValidPublicKeys

Nonces == {"n1", "n2"}

\* c.opts.Sig: the empty string, text that is not base64, or the base64
\* text of a signature made by the key pair of signer over msg
NoSig == [empty |-> TRUE, b64 |-> TRUE, signer |-> "", msg |-> ""]
BadSig == [empty |-> FALSE, b64 |-> FALSE, signer |-> "", msg |-> ""]
SigOf(k, n) == [empty |-> FALSE, b64 |-> TRUE, signer |-> k, msg |-> n]

\* base64.StdEncoding.DecodeString(sig) returns no error
DecodeStringOk(sig) == sig.b64
\* pub.Verify(nonce, sig) returns no error
VerifyOk(pub, nonce, sig) == sig.signer = pub /\ sig.msg = nonce

----------------------------------------------------------------------------
(* Configured identities.  The records of a configuration and their        *)
(* permission sets live at fixed addresses of the heap.                    *)

StoreHeap ==
    [perm |-> (1 :> [Publish |-> 2, Subscribe |-> Nil])
              @@ (4 :> [Publish |-> Nil, Subscribe |-> 5]),
     sp |-> (2 :> [Allow |-> 3, Deny |-> Nil]) @@ (5 :> [Allow |-> 6, Deny |-> 7]),
     arr |-> (3 :> <<"foo", "bar">>) @@ (6 :> <<>>) @@ (7 :> <<"foo">>)]

alice == [Username |-> "alice", Password |-> Str("foo"), Permissions |-> 1]
derek2 == [Username |-> "derek", Password |-> Bcrypt("bar"), Permissions |-> Nil]
nkA == [Nkey |-> "UK1", Permissions |-> 4]
nkBad == [Nkey |-> "BADKEY", Permissions |-> Nil]

\* a []*User or []*NkeyUser field of Options: nil, or a list
NilList == [nil |-> TRUE, l |-> <<>>]
List(l) == [nil |-> FALSE, l |-> l]

\* a map field of the server: the nil map, or a map
NilMap == [nil |-> TRUE, m |-> [k \in {} |-> Nil]]

\* a *User or *NkeyUser local: <<>> is nil, <<r>> points to record r
NilRef == <<>>
Ref(r) == <<r>>

NoCluster == [Username |-> "", Password |-> Empty]

Options(custom, nk, us, tok, un, pw, cl, rt) ==
    [CustomClientAuthentication |-> custom, Nkeys |-> nk, Users |-> us,
     Authorization |-> tok, Username |-> un, Password |-> pw,
     Cluster |-> cl, CustomRouterAuthentication |-> rt]

ClusterAuth(pw) == [Username |-> "derek", Password |-> pw]

\* the configurations the administrator may apply
Configs ==
    { Options(Nil, NilList, NilList, Empty, "", Empty, ClusterAuth(Str("foo")), Nil),
      Options(1, NilList, NilList, Empty, "", Empty, NoCluster, 1),
      Options(Nil, List(<<nkA, nkBad>>), List(<<alice>>), Empty, "", Empty, NoCluster, Nil),
      Options(Nil, List(<<nkA>>), NilList, Empty, "", Empty, NoCluster, Nil),
      Options(Nil, NilList, List(<<alice, derek2>>), Empty, "", Empty, NoCluster, Nil),
      Options(Nil, NilList, NilList, Empty, "derek", Str("foo"), NoCluster, Nil),
      Options(Nil, NilList, NilList, Str("T"), "derek", Str("foo"),
              ClusterAuth(Bcrypt("bar")), Nil) }

\* the connect options a peer may present
ClientOpts ==
    { o \in [Nkey : {"", "UK1", "BADKEY"},
             Sig : {NoSig, BadSig, SigOf("UK1", "n1"), SigOf("UK2", "n1")},
             Username : {"", "alice", "derek"},
             Password : {Str("foo"), Str("bar")},
             Authorization : {Empty, Str("T"), Str("T2")}] :
        o.Nkey = "" => o.Sig = NoSig }

\* a route presents a username and a password only
RouteOpts == { o \in ClientOpts : o.Nkey = "" /\ o.Authorization = Empty }

NoClientOpts ==
    [Nkey |-> "", Sig |-> NoSig, Username |-> "", Password |-> Empty,
     Authorization |-> Empty]

Conns == {"c1"}

----------------------------------------------------------------------------
(* configureAuthorization                                                  *)

\* the index of the last record of list l that has key k under field
LastWith(keys, k) ==
    CHOOSE i \in DOMAIN keys : keys[i] = k /\ \A j \in DOMAIN keys : keys[j] = k => j <= i

\* s.nkeys after  for _, u := range opts.Nkeys { s.nkeys[u.Nkey] = u }
NkeyMap(l) ==
    LET keys == [i \in DOMAIN l |-> l[i].Nkey]
    IN [nil |-> FALSE,
        m |-> [k \in {keys[i] : i \in DOMAIN l} |-> l[LastWith(keys, k)]]]

\* s.users after  for _, u := range opts.Users { s.users[u.Username] = u }
UserMap(l) ==
    LET keys == [i \in DOMAIN l |-> l[i].Username]
    IN [nil |-> FALSE,
        m |-> [k \in {keys[i] : i \in DOMAIN l} |-> l[LastWith(keys, k)]]]

\* slip: the last branch clears s.users and leaves AuthRequired as it was
configureAuthorization_KeepFlag(o, nk, us, ar) ==
    IF o.CustomClientAuthentication # Nil
    THEN [nkeys |-> nk, users |-> us, authRequired |-> TRUE]
    ELSE IF ~o.Nkeys.nil \/ ~o.Users.nil
    THEN [nkeys |-> IF ~o.Nkeys.nil THEN NkeyMap(o.Nkeys.l) ELSE nk,
          users |-> IF ~o.Users.nil THEN UserMap(o.Users.l) ELSE us,
          authRequired |-> TRUE]
    ELSE IF o.Username # "" \/ o.Authorization # Empty
    THEN [nkeys |-> nk, users |-> us, authRequired |-> TRUE]
    ELSE [nkeys |-> nk, users |-> NilMap, authRequired |-> ar]

\* slip: AuthRequired is set for a user list and not for an nkey list
configureAuthorization_UsersOnly(o, nk, us, ar) ==
    IF o.CustomClientAuthentication # Nil
    THEN [nkeys |-> nk, users |-> us, authRequired |-> TRUE]
    ELSE IF ~o.Nkeys.nil \/ ~o.Users.nil
    THEN [nkeys |-> IF ~o.Nkeys.nil THEN NkeyMap(o.Nkeys.l) ELSE nk,
          users |-> IF ~o.Users.nil THEN UserMap(o.Users.l) ELSE us,
          authRequired |-> IF ~o.Users.nil THEN TRUE ELSE ar]
    ELSE IF o.Username # "" \/ o.Authorization # Empty
    THEN [nkeys |-> nk, users |-> us, authRequired |-> TRUE]
    ELSE [nkeys |-> nk, users |-> NilMap, authRequired |-> FALSE]

\* the server fields after configureAuthorization ran on options o
configureAuthorization(o, nk, us, ar) ==
    IF o.CustomClientAuthentication # Nil
    THEN [nkeys |-> nk, users |-> us, authRequired |-> TRUE]
    ELSE IF ~o.Nkeys.nil \/ ~o.Users.nil
    THEN [nkeys |-> IF ~o.Nkeys.nil THEN NkeyMap(o.Nkeys.l) ELSE nk,
          users |-> IF ~o.Users.nil THEN UserMap(o.Users.l) ELSE us,
          authRequired |-> TRUE]
    ELSE IF o.Username # "" \/ o.Authorization # Empty
    THEN [nkeys |-> nk, users |-> us, authRequired |-> TRUE]
    ELSE [nkeys |-> nk, users |-> NilMap, authRequired |-> FALSE]

----------------------------------------------------------------------------
(* Clients and the activations of checkAuthorization                       *)

NoClient == [typ |-> "NONE", opts |-> NoClientOpts, nonce |-> "", perms |-> Nil]

NoFrame ==
    [pc |-> "none",
     customClientAuthentication |-> Nil, authorization |-> Empty,
     username |-> "", password |-> Empty,
     authRequired |-> FALSE, hasNkeys |-> FALSE, hasUsers |-> FALSE,
     nkey |-> NilRef, user |-> NilRef, ok |-> FALSE,
     cluster |-> NoCluster, customRouterAuthentication |-> Nil,
     check |-> FALSE, ret |-> FALSE]

\* an empty map[string]*subscription
NoSubs == [sid \in {} |-> Nil]

\* removeUnauthorizedSubs is not running
\* no subscription, and a worker that processes no SUB or UNSUB
NoSub == [client |-> "", subject |-> "", sid |-> "", id |-> 0]
NoWorker == [pc |-> "idle", sub |-> NoSub]
NoSweep == [pc |-> "idle", c |-> "", subs |-> NoSubs, todo |-> {}, sid |-> "", base |-> 0]

\* c.RegisterUser(user): the permission set of the record is cloned and the
\* clone is bound to the connection in place of what was bound before
RegisterUser(h, cl, user) ==
    LET h0 == Release(h, PermCells(h, cl.perms))
        cp == Permissions_clone(h0, user.Permissions)
    IN [h |-> cp.h, perms |-> cp.ptr]

----------------------------------------------------------------------------
(* Initial state: the server was constructed with one of the               *)
(* configurations and configureAuthorization ran once.                     *)

Init ==
    /\ opts \in Configs
    /\ LET r == configureAuthorization(opts, NilMap, NilMap, FALSE) IN
         /\ nkeys = r.nkeys
         /\ users = r.users
         /\ authRequired = r.authRequired
    /\ clients = [c \in Conns |-> NoClient]
    /\ frames = [c \in Conns |-> NoFrame]
    /\ heap = StoreHeap
    /\ src = Nil /\ dst = Nil /\ stage = "off" /\ kind = "none"
    /\ cmp = NoCompare
    /\ accepted = [c \in Conns |-> <<>>]
    /\ subs = [c \in Conns |-> NoSubs] /\ sl = {}
    /\ notices = [c \in Conns |-> <<>>] /\ created = 0 /\ sweep = NoSweep
    /\ worker = [c \in Conns |-> NoWorker] /\ cmu = [c \in Conns |-> ""] /\ slMu = ""
    /\ optsMu = {} /\ mu = ""

\* a reload: the new options are stored under s.optsMu and
\* configureAuthorization runs under s.mu
Reload(o) ==
    /\ o # opts
    /\ optsMu = {} /\ mu = ""
    /\ opts' = o
    /\ LET r == configureAuthorization(o, nkeys, users, authRequired) IN
         /\ nkeys' = r.nkeys
         /\ users' = r.users
         /\ authRequired' = r.authRequired
    /\ UNCHANGED <<clients, frames, heap, cloneVars, compareVars, nonceVars, sweepVars, lockVars>>

\* a connection is created and greeted; a nonce is issued when
\* authorization is required
CreateClient(c, typ, n) ==
    /\ clients[c].typ = "NONE"
    /\ clients' = [clients EXCEPT ![c] =
                     [typ |-> typ, opts |-> NoClientOpts,
                      nonce |-> IF authRequired THEN n ELSE "",
                      perms |-> Nil]]
    /\ UNCHANGED <<serverVars, frames, heap, cloneVars, compareVars, nonceVars, sweepVars, lockVars>>

\* the CONNECT of the peer was parsed into c.opts; checkAuthorization
\* dispatches on the kind of the connection
checkAuthorization(c, o) ==
    /\ clients[c].typ # "NONE"
    /\ frames[c].pc = "none"
    /\ clients[c].typ = "ROUTER" => o \in RouteOpts
    /\ clients' = [clients EXCEPT ![c].opts = o]
    /\ frames' = [frames EXCEPT ![c].pc =
                    CASE clients[c].typ = "CLIENT" -> "client"
                      [] clients[c].typ = "ROUTER" -> "router"
                      [] OTHER -> "done"]
    /\ UNCHANGED <<serverVars, heap, cloneVars, compareVars, nonceVars, sweepVars, lockVars>>

\* isClientAuthorized, s.optsMu.RLock()
OptsRLock(c) ==
    /\ frames[c].pc = "client"
    /\ optsMu' = optsMu \cup {c}
    /\ frames' = [frames EXCEPT ![c].pc = "rlocked"]
    /\ UNCHANGED <<serverVars, clients, heap, cloneVars, compareVars, nonceVars, sweepVars, mu>>

\* slip: s.optsMu.RUnlock() is deferred to the return of the function
SnapshotOpts_DeferRUnlock(c) ==
    /\ frames[c].pc = "rlocked"
    /\ frames' = [frames EXCEPT ![c] =
                    [@ EXCEPT !.pc = IF opts.CustomClientAuthentication # Nil
                                     THEN "custom" ELSE "lock",
                              !.customClientAuthentication = opts.CustomClientAuthentication,
                              !.authorization = opts.Authorization,
                              !.username = opts.Username,
                              !.password = opts.Password]]
    /\ UNCHANGED <<serverVars, clients, heap, cloneVars, compareVars, nonceVars, sweepVars, lockVars>>

\* isClientAuthorized, the options snapshot under s.optsMu and
\* s.optsMu.RUnlock()
SnapshotOpts(c) ==
    /\ frames[c].pc = "rlocked"
    /\ frames' = [frames EXCEPT ![c] =
                    [@ EXCEPT !.pc = IF opts.CustomClientAuthentication # Nil
                                     THEN "custom" ELSE "lock",
                              !.customClientAuthentication = opts.CustomClientAuthentication,
                              !.authorization = opts.Authorization,
                              !.username = opts.Username,
                              !.password = opts.Password]]
    /\ optsMu' = optsMu \ {c}
    /\ UNCHANGED <<serverVars, clients, heap, cloneVars, compareVars, nonceVars, sweepVars, mu>>

\* customClientAuthentication.Check(c): the callback decides, and may
\* register a user of its choice on the connection
CustomCheck(c, answer, reg) ==
    /\ frames[c].pc = "custom"
    /\ frames' = [frames EXCEPT ![c].pc = "done", ![c].ret = answer]
    /\ IF reg = NilRef
       THEN UNCHANGED <<clients, heap>>
       ELSE LET r == RegisterUser(heap, clients[c], reg[1]) IN
              /\ heap' = r.h
              /\ clients' = [clients EXCEPT ![c].perms = r.perms]
    /\ UNCHANGED <<serverVars, cloneVars, compareVars, nonceVars, sweepVars, lockVars>>

\* slip: the user table is tried before the nkey table
LookupFrame_UsersFirst(f, o, ar, nk, us) ==
    LET f0 == [f EXCEPT !.authRequired = ar] IN
    IF ~ar
    THEN [f0 EXCEPT !.pc = "done", !.ret = TRUE]
    ELSE LET f1 == [f0 EXCEPT !.hasNkeys = ~nk.nil, !.hasUsers = ~us.nil] IN
         IF f1.hasUsers /\ o.Username # ""
         THEN IF o.Username \in DOMAIN us.m
              THEN [f1 EXCEPT !.user = Ref(us.m[o.Username]), !.ok = TRUE, !.pc = "verify"]
              ELSE [f1 EXCEPT !.ok = FALSE, !.pc = "done", !.ret = FALSE]
         ELSE IF f1.hasNkeys /\ o.Nkey # ""
         THEN IF o.Nkey \in DOMAIN nk.m
              THEN [f1 EXCEPT !.nkey = Ref(nk.m[o.Nkey]), !.ok = TRUE, !.pc = "verify"]
              ELSE [f1 EXCEPT !.ok = FALSE, !.pc = "done", !.ret = FALSE]
         ELSE [f1 EXCEPT !.pc = "verify"]

\* slip: a failed lookup rejects before AuthRequired is looked at
LookupFrame_LateGate(f, o, ar, nk, us) ==
    LET f1 == [f EXCEPT !.authRequired = ar, !.hasNkeys = ~nk.nil, !.hasUsers = ~us.nil] IN
    IF f1.hasNkeys /\ o.Nkey # "" /\ o.Nkey \notin DOMAIN nk.m
    THEN [f1 EXCEPT !.ok = FALSE, !.pc = "done", !.ret = FALSE]
    ELSE IF ~ar
    THEN [f1 EXCEPT !.pc = "done", !.ret = TRUE, !.hasNkeys = FALSE, !.hasUsers = FALSE]
    ELSE IF f1.hasNkeys /\ o.Nkey # ""
    THEN [f1 EXCEPT !.nkey = Ref(nk.m[o.Nkey]), !.ok = TRUE, !.pc = "verify"]
    ELSE IF f1.hasUsers /\ o.Username # ""
    THEN IF o.Username \in DOMAIN us.m
         THEN [f1 EXCEPT !.user = Ref(us.m[o.Username]), !.ok = TRUE, !.pc = "verify"]
         ELSE [f1 EXCEPT !.ok = FALSE, !.pc = "done", !.ret = FALSE]
    ELSE [f1 EXCEPT !.pc = "verify"]

\* isClientAuthorized, the section under s.mu: authRequired is read and the
\* nkey or the user the client names is looked up
LookupFrame(f, o, ar, nk, us) ==
    LET f0 == [f EXCEPT !.authRequired = ar] IN
    IF ~ar
    THEN [f0 EXCEPT !.pc = "done", !.ret = TRUE]
    ELSE LET f1 == [f0 EXCEPT !.hasNkeys = ~nk.nil, !.hasUsers = ~us.nil] IN
         IF f1.hasNkeys /\ o.Nkey # ""
         THEN IF o.Nkey \in DOMAIN nk.m
              THEN [f1 EXCEPT !.nkey = Ref(nk.m[o.Nkey]), !.ok = TRUE, !.pc = "verify"]
              ELSE [f1 EXCEPT !.ok = FALSE, !.pc = "done", !.ret = FALSE]
         ELSE IF f1.hasUsers /\ o.Username # ""
         THEN IF o.Username \in DOMAIN us.m
              THEN [f1 EXCEPT !.user = Ref(us.m[o.Username]), !.ok = TRUE, !.pc = "verify"]
              ELSE [f1 EXCEPT !.ok = FALSE, !.pc = "done", !.ret = FALSE]
         ELSE [f1 EXCEPT !.pc = "verify"]

\* isClientAuthorized, s.mu.Lock()
MuLock(c) ==
    /\ frames[c].pc = "lock"
    /\ mu = ""
    /\ mu' = c
    /\ frames' = [frames EXCEPT ![c].pc = "lookup"]
    /\ UNCHANGED <<serverVars, clients, heap, cloneVars, compareVars, nonceVars, sweepVars, optsMu>>

\* the section under s.mu, which every path leaves through s.mu.Unlock()
Lookup(c) ==
    /\ frames[c].pc = "lookup"
    /\ frames' = [frames EXCEPT ![c] =
                    LookupFrame(@, clients[c].opts, authRequired, nkeys, users)]
    /\ mu' = ""
    /\ UNCHANGED <<serverVars, clients, heap, cloneVars, compareVars, nonceVars, sweepVars, optsMu>>

\* slip: the signature is verified over the message it was made for
VerifyNkey_OwnMessage(o, nonce) ==
    IF o.Sig.empty THEN FALSE
    ELSE IF ~DecodeStringOk(o.Sig) THEN FALSE
    ELSE IF ~FromPublicKeyOk(o.Nkey) THEN FALSE
    ELSE VerifyOk(o.Nkey, o.Sig.msg, o.Sig)

\* slip: the signature is verified to be one of the key, whatever it signs
VerifyNkey_KeyOnly(o, nonce) ==
    IF o.Sig.empty THEN FALSE
    ELSE IF ~DecodeStringOk(o.Sig) THEN FALSE
    ELSE IF ~FromPublicKeyOk(o.Nkey) THEN FALSE
    ELSE o.Sig.signer = o.Nkey

\* the nkey branch: the signature is decoded and verified against the nonce
VerifyNkey(o, nonce) ==
    IF o.Sig.empty THEN FALSE
    ELSE IF ~DecodeStringOk(o.Sig) THEN FALSE
    ELSE IF ~FromPublicKeyOk(o.Nkey) THEN FALSE
    ELSE VerifyOk(o.Nkey, nonce, o.Sig)

\* slip: the arguments of comparePasswords are exchanged
CheckUser_Swapped(user, o) == comparePasswords(o.Password, user.Password)

\* the user branch: ok = comparePasswords(user.Password, c.opts.Password)
CheckUser(user, o) == comparePasswords(user.Password, o.Password)

\* slip: the token is compared with the presented password
CheckToken_Password(authorization, o) == comparePasswords(authorization, o.Password)

\* the token branch
CheckToken(authorization, o) == comparePasswords(authorization, o.Authorization)

\* slip: the username test is missing
CheckUserPass_AnyName(username, password, o) == comparePasswords(password, o.Password)

\* the single user branch
CheckUserPass(username, password, o) ==
    IF username # o.Username THEN FALSE
    ELSE comparePasswords(password, o.Password)

\* slip: c.RegisterUser(user) is called before the result of the password
\* comparison is looked at
VerifyResult_RegisterFirst(f, cl) ==
    IF f.nkey # NilRef
    THEN [ret |-> VerifyNkey(cl.opts, cl.nonce), ok |-> f.ok, reg |-> NilRef]
    ELSE IF f.user # NilRef
    THEN LET ok == CheckUser(f.user[1], cl.opts)
         IN [ret |-> ok, ok |-> ok, reg |-> f.user]
    ELSE IF f.authorization # Empty
    THEN [ret |-> CheckToken(f.authorization, cl.opts), ok |-> f.ok, reg |-> NilRef]
    ELSE IF f.username # ""
    THEN [ret |-> CheckUserPass(f.username, f.password, cl.opts),
          ok |-> f.ok, reg |-> NilRef]
    ELSE [ret |-> FALSE, ok |-> f.ok, reg |-> NilRef]

\* isClientAuthorized after s.mu is released: what is returned, and the
\* record handed to c.RegisterUser (NilRef when it is not called)
VerifyResult(f, cl) ==
    IF f.nkey # NilRef
    THEN [ret |-> VerifyNkey(cl.opts, cl.nonce), ok |-> f.ok, reg |-> NilRef]
    ELSE IF f.user # NilRef
    THEN LET ok == CheckUser(f.user[1], cl.opts)
         IN [ret |-> ok, ok |-> ok, reg |-> IF ok THEN f.user ELSE NilRef]
    ELSE IF f.authorization # Empty
    THEN [ret |-> CheckToken(f.authorization, cl.opts), ok |-> f.ok, reg |-> NilRef]
    ELSE IF f.username # ""
    THEN [ret |-> CheckUserPass(f.username, f.password, cl.opts),
          ok |-> f.ok, reg |-> NilRef]
    ELSE [ret |-> FALSE, ok |-> f.ok, reg |-> NilRef]

Verify(c) ==
    /\ frames[c].pc = "verify"
    /\ LET v == VerifyResult(frames[c], clients[c]) IN
         /\ frames' = [frames EXCEPT ![c].pc = "done", ![c].ret = v.ret,
                                     ![c].ok = v.ok]
         /\ IF v.reg = NilRef
            THEN UNCHANGED <<clients, heap>>
            ELSE LET r == RegisterUser(heap, clients[c], v.reg[1]) IN
                   /\ heap' = r.h
                   /\ clients' = [clients EXCEPT ![c].perms = r.perms]
         /\ accepted' = IF v.ret /\ frames[c].nkey # NilRef
                        THEN [accepted EXCEPT ![c] = Append(@, clients[c].nonce)]
                        ELSE accepted
    /\ UNCHANGED <<serverVars, cloneVars, compareVars, sweepVars, lockVars>>

\* isRouterAuthorized, opts := s.getOpts()
RouterSnapshot(c) ==
    /\ frames[c].pc = "router"
    /\ frames' = [frames EXCEPT ![c].pc = "route", ![c].cluster = opts.Cluster]
    /\ UNCHANGED <<serverVars, clients, heap, cloneVars, compareVars, nonceVars, sweepVars, lockVars>>

\* slip: the username of the route is not compared
RouterResult_AnyName(cluster, o) ==
    IF cluster.Username = "" THEN TRUE
    ELSE comparePasswords(cluster.Password, o.Password)

\* what isRouterAuthorized returns when no custom router authentication
\* is set
RouterResult(cluster, o) ==
    IF cluster.Username = "" THEN TRUE
    ELSE IF cluster.Username # o.Username THEN FALSE
    ELSE comparePasswords(cluster.Password, o.Password)

\* isRouterAuthorized after the snapshot: s.opts.CustomRouterAuthentication
\* is read from the options applied at this moment; check is what its
\* Check(c) returned
RouterCheck(c, answer) ==
    /\ frames[c].pc = "route"
    /\ frames' = [frames EXCEPT
                    ![c].pc = "done",
                    ![c].customRouterAuthentication = opts.CustomRouterAuthentication,
                    ![c].check = (opts.CustomRouterAuthentication # Nil /\ answer),
                    ![c].ret = IF opts.CustomRouterAuthentication # Nil
                               THEN answer
                               ELSE RouterResult(frames[c].cluster, clients[c].opts)]
    /\ opts.CustomRouterAuthentication = Nil => answer = TRUE
    /\ UNCHANGED <<serverVars, clients, heap, cloneVars, compareVars, nonceVars, sweepVars, lockVars>>

\* the connection goes away, with what was bound to it
CloseClient(c) ==
    /\ clients[c].typ # "NONE"
    /\ frames[c].pc \in {"none", "done"}
    /\ heap' = Release(heap, PermCells(heap, clients[c].perms))
    /\ clients' = [clients EXCEPT ![c] = NoClient]
    /\ frames' = [frames EXCEPT ![c] = NoFrame]
    /\ accepted' = [accepted EXCEPT ![c] = <<>>]
    /\ UNCHANGED <<serverVars, cloneVars, compareVars, sweepVars, lockVars>>

Next ==
    \/ \E o \in Configs : Reload(o)
    \/ \E c \in Conns, typ \in {"CLIENT", "ROUTER"}, n \in Nonces : CreateClient(c, typ, n)
    \/ \E c \in Conns, o \in ClientOpts : checkAuthorization(c, o)
    \/ \E c \in Conns : OptsRLock(c)
    \/ \E c \in Conns : SnapshotOpts(c)
    \/ \E c \in Conns, answer \in BOOLEAN, reg \in {NilRef, Ref(alice)} :
          CustomCheck(c, answer, reg)
    \/ \E c \in Conns : MuLock(c)
    \/ \E c \in Conns : Lookup(c)
    \/ \E c \in Conns : Verify(c)
    \/ \E c \in Conns : RouterSnapshot(c)
    \/ \E c \in Conns, answer \in BOOLEAN : RouterCheck(c, answer)
    \/ \E c \in Conns : CloseClient(c)

Spec == Init /\ [][Next]_vars

----------------------------------------------------------------------------
(* What a finished client decision consulted, read off its own locals.     *)

Decided(c) == clients[c].typ = "CLIENT" /\ frames[c].pc = "done"
\* no custom authenticator was found and AuthRequired was read as true
Required(c) ==
    /\ Decided(c)
    /\ frames[c].customClientAuthentication = Nil
    /\ frames[c].authRequired
NkeySelected(c) ==
    Required(c) /\ frames[c].hasNkeys /\ clients[c].opts.Nkey # ""
UserSelected(c) ==
    /\ Required(c) /\ ~NkeySelected(c)
    /\ frames[c].hasUsers /\ clients[c].opts.Username # ""
TokenSelected(c) ==
    /\ Required(c) /\ ~NkeySelected(c) /\ ~UserSelected(c)
    /\ frames[c].authorization # Empty
UserPassSelected(c) ==
    /\ Required(c) /\ ~NkeySelected(c) /\ ~UserSelected(c)
    /\ frames[c].authorization = Empty
    /\ frames[c].username # ""
\* the step of c in which the section under s.mu runs
LookupStep(c) == frames[c].pc = "lookup" /\ frames'[c].pc # "lookup"
\* the step of c in which checkAuthorization returns
ReturnStep(c) == frames[c].pc # "done" /\ frames'[c].pc = "done"

----------------------------------------------------------------------------
(* C1: a client decision consults the strategies in the order custom       *)
(* authenticator, nkey, per-user table, shared token, shared username and  *)
(* password, and what it returns is the answer of the first one that       *)
(* applies: with a custom authenticator nothing else is read; a client     *)
(* that names an nkey while an nkey table exists is decided by the nkey    *)
(* check alone, also when it names a user of the user table, whose record  *)
(* is then not even looked up; and so on down the order.                   *)
C1_FixedPriority ==
    \A c \in Conns : Decided(c) =>
        LET f == frames[c]
            o == clients[c].opts
        IN /\ f.customClientAuthentication # Nil =>
                 /\ f.nkey = NilRef /\ f.user = NilRef
                 /\ ~f.authRequired /\ ~f.hasNkeys /\ ~f.hasUsers
           /\ NkeySelected(c) =>
                 /\ f.user = NilRef
                 /\ clients[c].perms = Nil
                 /\ f.ret = (f.nkey # NilRef /\ VerifyNkey(o, clients[c].nonce))
           /\ UserSelected(c) =>
                 /\ f.nkey = NilRef
                 /\ f.ret = (f.user # NilRef /\ comparePasswords(f.user[1].Password, o.Password))
           /\ TokenSelected(c) =>
                 f.ret = comparePasswords(f.authorization, o.Authorization)
           /\ UserPassSelected(c) =>
                 f.ret = (f.username = o.Username /\ comparePasswords(f.password, o.Password))

\* both tables exist, the client names an nkey and the user alice with her
\* password, and is rejected on its signature
C1_Witness ==
    \E c \in Conns :
        /\ NkeySelected(c) /\ frames[c].hasUsers
        /\ frames[c].nkey # NilRef
        /\ clients[c].opts.Username = "alice" /\ clients[c].opts.Password = Str("foo")
        /\ ~frames[c].ret

(* C2: after the initial configureAuthorization and after every later one, *)
(* AuthRequired is true exactly when the applied options set a custom      *)
(* client authenticator, an nkey list, a user list, a token or a username. *)
HasStrategy(o) ==
    \/ o.CustomClientAuthentication # Nil
    \/ ~o.Nkeys.nil
    \/ ~o.Users.nil
    \/ o.Authorization # Empty
    \/ o.Username # ""

C2_AuthRequiredIffStrategy == authRequired = HasStrategy(opts)

\* options without any strategy were applied over options with an nkey list
C2_Witness == ~authRequired /\ ~nkeys.nil /\ ~HasStrategy(opts)

(* C3, as stated: whenever checkAuthorization returns while AuthRequired   *)
(* is false, it returns true, for a client and for a route alike.          *)
C3_AcceptsAllKinds ==
    [][\A c \in Conns : (ReturnStep(c) /\ ~authRequired) => frames'[c].ret]_vars

(* C3, amended: a client decision that found no custom authenticator and   *)
(* read AuthRequired as false returns true, whatever the client presented, *)
(* without looking up or comparing anything.                               *)
C3_ClientAcceptedWhenNotRequired ==
    \A c \in Conns :
        (/\ Decided(c)
         /\ frames[c].customClientAuthentication = Nil
         /\ ~frames[c].authRequired) =>
            /\ frames[c].ret
            /\ frames[c].nkey = NilRef /\ frames[c].user = NilRef
            /\ clients[c].perms = Nil

\* a client naming a key that the nkey table left on the server does not
\* hold, with a wrong token, was accepted because nothing is required
C3_Witness ==
    \E c \in Conns :
        /\ Decided(c)
        /\ frames[c].customClientAuthentication = Nil
        /\ ~frames[c].authRequired
        /\ ~nkeys.nil
        /\ clients[c].opts.Nkey # "" /\ clients[c].opts.Nkey \notin DOMAIN nkeys.m
        /\ clients[c].opts.Authorization = Str("T2")
        /\ frames[c].ret

(* C4: when the decision comes down to the shared token T (no custom       *)
(* authenticator, the client taken neither by the nkey nor by the user     *)
(* branch), it returns what the comparison of T with the presented token   *)
(* gives: for a plaintext T, true for T and false for any other token and  *)
(* for no token.                                                           *)
C4_SharedToken ==
    \A c \in Conns : TokenSelected(c) =>
        LET T == frames[c].authorization
            presented == clients[c].opts.Authorization
        IN /\ frames[c].ret = comparePasswords(T, presented)
           /\ ~isBcrypt(T) => (frames[c].ret <=> presented = T)
           /\ presented = Empty => ~frames[c].ret

\* the token T was presented and accepted
C4_Witness ==
    \E c \in Conns :
        /\ TokenSelected(c)
        /\ clients[c].opts.Authorization = frames[c].authorization
        /\ clients[c].opts.Password # frames[c].authorization
        /\ frames[c].ret

C6_PerUserTable ==
    /\ [][\A c \in Conns :
            (/\ LookupStep(c) /\ authRequired
             /\ ~(~nkeys.nil /\ clients[c].opts.Nkey # "")
             /\ ~users.nil /\ clients[c].opts.Username # "") =>
                IF clients[c].opts.Username \in DOMAIN users.m
                THEN /\ frames'[c].pc = "verify"
                     /\ frames'[c].user = Ref(users.m[clients[c].opts.Username])
                ELSE frames'[c].pc = "done" /\ ~frames'[c].ret]_vars
    /\ [](\A c \in Conns : UserSelected(c) =>
            LET f == frames[c]
                o == clients[c].opts
            IN /\ f.user = NilRef => ~f.ret
               /\ f.user # NilRef =>
                    /\ f.user[1].Username = o.Username
                    /\ f.ret = comparePasswords(f.user[1].Password, o.Password)
                    /\ f.ret => PermVal(heap, clients[c].perms)
                                   = PermVal(heap, f.user[1].Permissions))

\* alice was accepted and her permissions are bound
C6_Witness ==
    \E c \in Conns :
        /\ UserSelected(c) /\ frames[c].ret
        /\ frames[c].user = Ref(alice)
        /\ clients[c].perms # Nil

(* C7: a client that names an nkey while an nkey table exists is rejected  *)
(* when the table does not hold the key, when it sent no signature, when   *)
(* the signature is not base64 or the key is malformed; otherwise it is    *)
(* accepted exactly when the signature verifies over the nonce of the      *)
(* connection under the named key.  Each failure is the result false of a  *)
(* decision that completed.                                                *)
C7_PublicKey ==
    /\ [][\A c \in Conns :
            (/\ LookupStep(c) /\ authRequired
             /\ ~nkeys.nil /\ clients[c].opts.Nkey # "") =>
                IF clients[c].opts.Nkey \in DOMAIN nkeys.m
                THEN /\ frames'[c].pc = "verify"
                     /\ frames'[c].nkey = Ref(nkeys.m[clients[c].opts.Nkey])
                ELSE frames'[c].pc = "done" /\ ~frames'[c].ret]_vars
    /\ [](\A c \in Conns : NkeySelected(c) =>
            LET f == frames[c]
                o == clients[c].opts
            IN /\ f.nkey = NilRef => ~f.ret
               /\ o.Sig.empty => ~f.ret
               /\ ~DecodeStringOk(o.Sig) => ~f.ret
               /\ ~FromPublicKeyOk(o.Nkey) => ~f.ret
               /\ (/\ f.nkey # NilRef /\ ~o.Sig.empty
                   /\ DecodeStringOk(o.Sig) /\ FromPublicKeyOk(o.Nkey)) =>
                      /\ f.nkey[1].Nkey = o.Nkey
                      /\ f.ret = VerifyOk(o.Nkey, clients[c].nonce, o.Sig))

\* a signature of the right key over another nonce was rejected
C7_Witness ==
    \E c \in Conns :
        /\ NkeySelected(c) /\ frames[c].nkey # NilRef
        /\ clients[c].opts.Sig = SigOf(clients[c].opts.Nkey, "n1")
        /\ clients[c].nonce # "n1"
        /\ ~frames[c].ret

(* C8, as stated: a client accepted through the user branch or through the *)
(* nkey branch has a clone of the permissions of the matched record bound  *)
(* to its connection when the decision has returned.                       *)
C8_PermissionsBoundOnAccept ==
    \A c \in Conns :
        (/\ frames[c].ret
         /\ \/ UserSelected(c) /\ frames[c].user # NilRef
            \/ NkeySelected(c) /\ frames[c].nkey # NilRef) =>
            LET perm == IF NkeySelected(c) THEN frames[c].nkey[1].Permissions
                        ELSE frames[c].user[1].Permissions
            IN /\ PermVal(heap, clients[c].perms) = PermVal(heap, perm)
               /\ PermCells(heap, clients[c].perms) \cap PermCells(heap, perm) = {}

(* C9: the permissions bound to a connection and the permissions of the    *)
(* records of the applied options and of the server's tables have no       *)
(* object and no backing array in common, so that a write through one is   *)
(* not seen through the other.                                             *)
StoreRecords ==
    {opts.Users.l[i] : i \in DOMAIN opts.Users.l}
    \cup {opts.Nkeys.l[i] : i \in DOMAIN opts.Nkeys.l}
    \cup {users.m[k] : k \in DOMAIN users.m}
    \cup {nkeys.m[k] : k \in DOMAIN nkeys.m}

C9_BoundPermissionsNotShared ==
    \A c \in Conns : \A r \in StoreRecords :
        PermCells(heap, clients[c].perms) \cap PermCells(heap, r.Permissions) = {}

\* alice is connected with her permissions bound and her record is in the
\* user table
C9_Witness ==
    \E c \in Conns :
        /\ Decided(c) /\ frames[c].ret
        /\ PermLists(heap, clients[c].perms) # {}
        /\ ~users.nil /\ "alice" \in DOMAIN users.m
        /\ PermVal(heap, clients[c].perms) = PermVal(heap, users.m["alice"].Permissions)

(* C12: the greeting of a new connection carries a nonce exactly when       *)
(* AuthRequired is true at that moment; in particular it carries one when  *)
(* the applied options hold an nkey list and none when they set no         *)
(* strategy at all.                                                        *)
CreateStep(c) == clients[c].typ = "NONE" /\ clients'[c].typ # "NONE"

C12_NonceIffAuthRequired ==
    [][\A c \in DOMAIN clients : CreateStep(c) =>
          /\ clients'[c].nonce # "" <=> authRequired
          /\ ~opts.Nkeys.nil => clients'[c].nonce # ""
          /\ ~HasStrategy(opts) => clients'[c].nonce = ""]_vars

\* a connection greeted without a nonce is still open after options with a
\* strategy were applied
C12_Witness ==
    \E c \in DOMAIN clients :
        /\ clients[c].typ = "CLIENT" /\ clients[c].nonce = ""
        /\ authRequired /\ ~opts.Nkeys.nil

(* C15: a route decision returns what the custom router authenticator      *)
(* returned when it found one; otherwise it accepts when the route         *)
(* username it read is empty; otherwise it accepts exactly when the        *)
(* presented username is that username and comparePasswords accepts the    *)
(* presented password against the route password.                          *)
RouteDecided(c) == clients[c].typ = "ROUTER" /\ frames[c].pc = "done"

C15_RouterAuthorized ==
    \A c \in DOMAIN clients : RouteDecided(c) =>
        LET f == frames[c]
            o == clients[c].opts
        IN IF f.customRouterAuthentication # Nil
           THEN f.ret = f.check
           ELSE IF f.cluster.Username = ""
           THEN f.ret
           ELSE f.ret = (/\ o.Username = f.cluster.Username
                         /\ comparePasswords(f.cluster.Password, o.Password))

\* a route that presents the route password under another username was
\* rejected
C15_Witness ==
    \E c \in DOMAIN clients :
        /\ RouteDecided(c)
        /\ frames[c].customRouterAuthentication = Nil
        /\ frames[c].cluster.Username # ""
        /\ clients[c].opts.Username # frames[c].cluster.Username
        /\ comparePasswords(frames[c].cluster.Password, clients[c].opts.Password)
        /\ ~frames[c].ret

(* C18, as stated: the values a decision consults come from one applied    *)
(* configuration.  When a client decision reads AuthRequired and the       *)
(* tables under s.mu, the options fields it copied before are those of the *)
(* options applied at that moment; when a route decision reads             *)
(* s.opts.CustomRouterAuthentication, the route credentials it copied      *)
(* before are those of the options applied at that moment.                 *)
RouteStep(c) == frames[c].pc = "route" /\ frames'[c].pc = "done"

C18_OneConfiguration ==
    [][\A c \in DOMAIN clients :
          /\ LookupStep(c) =>
                /\ frames[c].customClientAuthentication = opts.CustomClientAuthentication
                /\ frames[c].authorization = opts.Authorization
                /\ frames[c].username = opts.Username
                /\ frames[c].password = opts.Password
          /\ RouteStep(c) => frames[c].cluster = opts.Cluster]_vars

(* C19, as stated: in every state, which is after the last                 *)
(* configureAuthorization, the nkey table and the user table hold exactly  *)
(* the identities of the applied options, and a lookup finds only records  *)
(* of the applied options.                                                 *)
NkeyRecords(o) == {o.Nkeys.l[i] : i \in DOMAIN o.Nkeys.l}
UserRecords(o) == {o.Users.l[i] : i \in DOMAIN o.Users.l}

C19_TablesReplaced ==
    /\ [](/\ DOMAIN nkeys.m = {r.Nkey : r \in NkeyRecords(opts)}
          /\ DOMAIN users.m = {r.Username : r \in UserRecords(opts)}
          /\ \A k \in DOMAIN nkeys.m : nkeys.m[k] \in NkeyRecords(opts)
          /\ \A k \in DOMAIN users.m : users.m[k] \in UserRecords(opts))
    /\ [][\A c \in DOMAIN clients : LookupStep(c) =>
            /\ frames'[c].nkey # NilRef => frames'[c].nkey[1] \in NkeyRecords(opts)
            /\ frames'[c].user # NilRef => frames'[c].user[1] \in UserRecords(opts)]_vars

(* C20: the worker of a client decision holds s.optsMu only while it       *)
(* copies the options fields and s.mu only while it reads AuthRequired and *)
(* looks the client up; it holds neither when the custom authenticator is  *)
(* called, when the signature is verified and when comparePasswords runs.  *)
C20_NoLockAcrossVerification ==
    \A c \in DOMAIN clients :
        /\ c \in optsMu => frames[c].pc = "rlocked"
        /\ mu = c => frames[c].pc = "lookup"
        /\ frames[c].pc \in {"custom", "verify"} => (c \notin optsMu /\ mu # c)

\* the worker is about to compare the password of the user it looked up
\* and holds no lock
C20_Witness ==
    \E c \in DOMAIN clients :
        /\ frames[c].pc = "verify" /\ frames[c].user # NilRef
        /\ optsMu = {} /\ mu = ""

\* the activation of isClientAuthorized for the client is under way
Deciding(c) ==
    /\ clients[c].typ = "CLIENT"
    /\ frames[c].pc \in {"client", "rlocked", "custom", "lock", "lookup", "verify"}

\* the step changes what is bound to the client
Rebinds(c) == clients'[c].perms # clients[c].perms \/ heap' # heap

\* isClientAuthorized has returned and its worker holds neither lock
ReturnedUnlocked ==
    \A c \in DOMAIN clients :
        (clients[c].typ = "CLIENT" /\ frames[c].pc = "done") =>
            (c \notin optsMu /\ mu # c)

(* C22, as stated: no step of isClientAuthorized on a path that returns    *)
(* false changes the permissions bound to the client, and when it has      *)
(* returned, true or false, its worker holds neither s.optsMu nor s.mu.    *)
C22_RejectLeavesBinding ==
    /\ []ReturnedUnlocked
    /\ [][\A c \in DOMAIN clients :
             (Deciding(c) /\ Rebinds(c)) =>
                 (frames'[c].pc = "done" /\ frames'[c].ret)]_vars

(* C22, amended: the same for the paths isClientAuthorized decides itself; *)
(* on the path that hands the decision to a custom authenticator, what is  *)
(* bound is what the callback did through RegisterUser, whatever it        *)
(* answers.                                                                *)
C22_OwnRejectLeavesBinding ==
    /\ []ReturnedUnlocked
    /\ [][\A c \in DOMAIN clients :
             (Deciding(c) /\ frames[c].pc # "custom" /\ Rebinds(c)) =>
                 (frames'[c].pc = "done" /\ frames'[c].ret)]_vars

\* the user was found, the password did not match: false was returned,
\* nothing is bound and no lock is held
C22_Witness ==
    \E c \in DOMAIN clients :
        /\ clients[c].typ = "CLIENT"
        /\ frames[c].pc = "done" /\ ~frames[c].ret
        /\ frames[c].customClientAuthentication = Nil
        /\ frames[c].user # NilRef
        /\ clients[c].perms = Nil
        /\ optsMu = {} /\ mu = ""

----------------------------------------------------------------------------
(* The clone methods as functions of their receiver: a permission set is   *)
(* built from every value within the bounds, cloned, and then one element  *)
(* of one list of the clone is overwritten.                                *)

SeqsUpTo(n) == UNION {[1..k -> Subjects] : k \in 0..n}
ListInputs == {<<>>} \cup {<<l>> : l \in SeqsUpTo(MaxLen)}
SPInputs == {<<>>} \cup {<<[Allow |-> a, Deny |-> d]>> : a \in ListInputs, d \in ListInputs}
PermInputs == {<<>>} \cup {<<[Publish |-> p, Subscribe |-> s]>> : p \in SPInputs, s \in SPInputs}

\* the heap holding value v: the Permissions at 1, its SubjectPermissions
\* at 2 and 3, their lists at 4..7
InputField(v, a) ==
    LET f == IF a \in {4, 5} THEN v[1].Publish ELSE v[1].Subscribe
    IN IF f = <<>> THEN <<>> ELSE IF a \in {4, 6} THEN f[1].Allow ELSE f[1].Deny
InputSP(v, a) == IF a = 2 THEN v[1].Publish ELSE v[1].Subscribe
InputHeap(v) ==
    IF v = <<>> THEN EmptyHeap
    ELSE [perm |-> (1 :> [Publish |-> IF v[1].Publish = <<>> THEN Nil ELSE 2,
                          Subscribe |-> IF v[1].Subscribe = <<>> THEN Nil ELSE 3]),
          sp |-> [a \in {x \in {2, 3} : InputSP(v, x) # <<>>} |->
                    [Allow |-> IF InputSP(v, a)[1].Allow = <<>> THEN Nil ELSE 2 * a,
                     Deny |-> IF InputSP(v, a)[1].Deny = <<>> THEN Nil ELSE 2 * a + 1]],
          arr |-> [a \in {x \in 4..7 : InputField(v, x) # <<>>} |-> InputField(v, a)[1]]]

CloneInit ==
    /\ opts = CHOOSE o \in Configs : TRUE
    /\ nkeys = NilMap /\ users = NilMap /\ authRequired = FALSE
    /\ clients = [c \in Conns |-> NoClient]
    /\ frames = [c \in Conns |-> NoFrame]
    /\ \E v \in PermInputs :
         /\ heap = InputHeap(v)
         /\ \/ kind = "Permissions" /\ src = IF v = <<>> THEN Nil ELSE 1
            \/ /\ kind = "SubjectPermission"
               /\ v # <<>> /\ v[1].Subscribe = <<>>
               /\ src = heap.perm[1].Publish
    /\ dst = Nil
    /\ stage = "input"
    /\ cmp = NoCompare
    /\ accepted = [c \in Conns |-> <<>>]
    /\ subs = [c \in Conns |-> NoSubs] /\ sl = {}
    /\ notices = [c \in Conns |-> <<>>] /\ created = 0 /\ sweep = NoSweep
    /\ worker = [c \in Conns |-> NoWorker] /\ cmu = [c \in Conns |-> ""] /\ slMu = ""
    /\ optsMu = {} /\ mu = ""

ClonePermissions ==
    /\ stage = "input" /\ kind = "Permissions"
    /\ LET r == Permissions_clone(heap, src) IN heap' = r.h /\ dst' = r.ptr
    /\ stage' = "cloned"
    /\ UNCHANGED <<serverVars, clients, frames, src, kind, compareVars, nonceVars, sweepVars, lockVars>>

CloneSubjectPermission ==
    /\ stage = "input" /\ kind = "SubjectPermission"
    /\ LET r == SubjectPermission_clone(heap, src) IN heap' = r.h /\ dst' = r.ptr
    /\ stage' = "cloned"
    /\ UNCHANGED <<serverVars, clients, frames, src, kind, compareVars, nonceVars, sweepVars, lockVars>>

SrcLists == IF kind = "Permissions" THEN PermLists(heap, src) ELSE SPLists(heap, src)
DstLists == IF kind = "Permissions" THEN PermLists(heap, dst) ELSE SPLists(heap, dst)
SrcCells == IF kind = "Permissions" THEN PermCells(heap, src) ELSE SPCells(heap, src)
DstCells == IF kind = "Permissions" THEN PermCells(heap, dst) ELSE SPCells(heap, dst)
SrcVal == IF kind = "Permissions" THEN PermVal(heap, src) ELSE SPVal(heap, src)
DstVal == IF kind = "Permissions" THEN PermVal(heap, dst) ELSE SPVal(heap, dst)

\* one element of one list of the clone is overwritten
MutateClone ==
    /\ stage = "cloned"
    /\ \E a \in DstLists : \E i \in DOMAIN heap.arr[a] :
         heap' = [heap EXCEPT !.arr[a][i] = "changed"]
    /\ stage' = "mutated"
    /\ UNCHANGED <<serverVars, clients, frames, src, dst, kind, compareVars, nonceVars, sweepVars, lockVars>>

CloneNext ==
    \/ ClonePermissions
    \/ CloneSubjectPermission
    \/ MutateClone

SpecClone == CloneInit /\ [][CloneNext]_vars

----------------------------------------------------------------------------
(* C10: the clone of a Permissions or of a SubjectPermission has the value *)
(* of the original (absent filters and absent lists absent, lists with the *)
(* same elements in the same order), is made of other objects and other    *)
(* backing arrays, and overwriting an element of a list of the clone       *)
(* leaves the value of the original as it was.                             *)
C10_CloneIsDeepCopy ==
    /\ [](stage = "cloned" =>
            /\ DstVal = SrcVal
            /\ (src = Nil <=> dst = Nil)
            /\ SrcCells \cap DstCells = {})
    /\ [][stage' = "mutated" => SrcVal' = SrcVal]_vars

\* a clone holding a list was mutated and now differs from its original
C10_Witness ==
    /\ stage = "mutated"
    /\ SrcLists # {}
    /\ DstVal # SrcVal

----------------------------------------------------------------------------
(* comparePasswords as a function of its arguments: a secret is configured *)
(* as it is or as a bcrypt hash of it, and a string is presented.          *)

\* the secrets an administrator may configure: ordinary strings, a string
\* that happens to start with bcryptPrefix, and a string that reads as the
\* bcrypt hash of "foo"
Plaintexts == {Str("foo"), Str("bar"), Str("T"), Empty, BadHash, Bcrypt("foo")}

\* the strings a peer may present
Presented == Plaintexts \cup {Bcrypt("bar"), Bcrypt("T"), Bcrypt("")}

\* what is stored for a secret: the secret, or a bcrypt hash of it
StoredAs(secret, hashed) == IF hashed THEN Bcrypt(secret.txt) ELSE secret

CompareInit ==
    /\ opts = CHOOSE o \in Configs : TRUE
    /\ nkeys = NilMap /\ users = NilMap /\ authRequired = FALSE
    /\ clients = [c \in Conns |-> NoClient]
    /\ frames = [c \in Conns |-> NoFrame]
    /\ heap = EmptyHeap
    /\ src = Nil /\ dst = Nil /\ stage = "off" /\ kind = "none"
    /\ \E secret \in Plaintexts, hashed \in BOOLEAN, presented \in Presented :
         /\ hashed => ~secret.pfx
         /\ cmp = [stage |-> "input", secret |-> secret, hashed |-> hashed,
                   serverPassword |-> StoredAs(secret, hashed),
                   clientPassword |-> presented, ret |-> FALSE]
    /\ accepted = [c \in Conns |-> <<>>]
    /\ subs = [c \in Conns |-> NoSubs] /\ sl = {}
    /\ notices = [c \in Conns |-> <<>>] /\ created = 0 /\ sweep = NoSweep
    /\ worker = [c \in Conns |-> NoWorker] /\ cmu = [c \in Conns |-> ""] /\ slMu = ""
    /\ optsMu = {} /\ mu = ""

Compare ==
    /\ cmp.stage = "input"
    /\ cmp' = [cmp EXCEPT !.stage = "done",
                          !.ret = comparePasswords(cmp.serverPassword, cmp.clientPassword)]
    /\ UNCHANGED <<serverVars, clients, frames, heap, cloneVars, nonceVars, sweepVars, lockVars>>

CompareNext == Compare

SpecCompare == CompareInit /\ [][CompareNext]_vars

(* C11, as stated: for every configured secret, stored as it is or as a    *)
(* bcrypt hash of it, comparePasswords returns true exactly when the       *)
(* presented string equals the secret; and a stored hash presented as the  *)
(* password is rejected.                                                   *)
C11_CompareIffPlaintext ==
    cmp.stage = "done" =>
        /\ cmp.ret <=> cmp.clientPassword = cmp.secret
        /\ (cmp.hashed /\ cmp.clientPassword = cmp.serverPassword) => ~cmp.ret

(* C11, amended: the same for every secret that does not itself start with *)
(* bcryptPrefix.  (A stored string with the prefix is always taken for a   *)
(* hash, so such a secret stored as it is does not match itself.)          *)
C11_CompareIffUnprefixedPlaintext ==
    (cmp.stage = "done" /\ ~isBcrypt(cmp.secret)) =>
        /\ cmp.ret <=> cmp.clientPassword = cmp.secret
        /\ (cmp.hashed /\ cmp.clientPassword = cmp.serverPassword) => ~cmp.ret

\* the hash of a secret was stored and the hash itself was presented
C11_Witness ==
    /\ cmp.stage = "done"
    /\ cmp.hashed /\ ~isBcrypt(cmp.secret)
    /\ cmp.clientPassword = cmp.serverPassword
    /\ ~cmp.ret

----------------------------------------------------------------------------
(* Two connections of clients that sign nonces, on a server that holds an  *)
(* nkey list.  An accepted client may send CONNECT again on its            *)
(* connection.                                                             *)

Conns2 == {"c1", "c2"}

\* options with the nkey list, and options without any strategy
NonceConfigs ==
    { Options(Nil, List(<<nkA>>), NilList, Empty, "", Empty, NoCluster, Nil),
      Options(Nil, NilList, NilList, Empty, "", Empty, NoCluster, Nil) }

\* CONNECT with the key of nkA and a signature over one of the nonces, or a
\* signature of another key
NonceOpts ==
    { [Nkey |-> "UK1", Sig |-> sig, Username |-> "", Password |-> Empty,
       Authorization |-> Empty] :
        sig \in {SigOf("UK1", n) : n \in Nonces} \cup {SigOf("UK2", "n1")} }

\* the nonces of the connections that are open
NoncesInUse == {clients[c].nonce : c \in DOMAIN clients}

NonceInit ==
    /\ opts \in NonceConfigs
    /\ LET r == configureAuthorization(opts, NilMap, NilMap, FALSE) IN
         /\ nkeys = r.nkeys
         /\ users = r.users
         /\ authRequired = r.authRequired
    /\ clients = [c \in Conns2 |-> NoClient]
    /\ frames = [c \in Conns2 |-> NoFrame]
    /\ heap = StoreHeap
    /\ src = Nil /\ dst = Nil /\ stage = "off" /\ kind = "none"
    /\ cmp = NoCompare
    /\ accepted = [c \in Conns2 |-> <<>>]
    /\ subs = [c \in Conns2 |-> NoSubs] /\ sl = {}
    /\ notices = [c \in Conns2 |-> <<>>] /\ created = 0 /\ sweep = NoSweep
    /\ worker = [c \in Conns2 |-> NoWorker] /\ cmu = [c \in Conns2 |-> ""] /\ slMu = ""
    /\ optsMu = {} /\ mu = ""

\* another CONNECT arrives on a connection whose CONNECT was accepted
Reconnect(c, o) ==
    /\ clients[c].typ = "CLIENT"
    /\ frames[c].pc = "done" /\ frames[c].ret
    /\ Len(accepted[c]) < MaxAttempts
    /\ clients' = [clients EXCEPT ![c].opts = o]
    /\ frames' = [frames EXCEPT ![c] = [NoFrame EXCEPT !.pc = "client"]]
    /\ UNCHANGED <<serverVars, heap, cloneVars, compareVars, nonceVars, sweepVars, lockVars>>

NonceNext ==
    \/ \E o \in NonceConfigs : Reload(o)
    \/ \E c \in Conns2, n \in Nonces \ NoncesInUse : CreateClient(c, "CLIENT", n)
    \/ \E c \in Conns2, o \in NonceOpts : checkAuthorization(c, o)
    \/ \E c \in Conns2 : OptsRLock(c)
    \/ \E c \in Conns2 : SnapshotOpts(c)
    \/ \E c \in Conns2 : MuLock(c)
    \/ \E c \in Conns2 : Lookup(c)
    \/ \E c \in Conns2 : Verify(c)
    \/ \E c \in Conns2, o \in NonceOpts : Reconnect(c, o)
    \/ \E c \in Conns2 : CloseClient(c)

SpecNonce == NonceInit /\ [][NonceNext]_vars

(* C13, as stated: the connections that are open hold different nonces,    *)
(* and on one connection no nonce is accepted in two attempts.             *)
C13_NonceNeverReused ==
    /\ \A a, b \in DOMAIN clients :
          (a # b /\ clients[a].nonce # "") => clients[a].nonce # clients[b].nonce
    /\ \A c \in DOMAIN clients : \A i, j \in DOMAIN accepted[c] :
          i # j => accepted[c][i] # accepted[c][j]

(* C14: a client decided by the nkey check that presents a signature made  *)
(* with the named key over the nonce of its own connection is accepted,    *)
(* and one that presents the signature made over the nonce of another      *)
(* connection, which differs from its own, is rejected.                    *)
C14_SignatureBoundToNonce ==
    \A b \in DOMAIN clients :
        (NkeySelected(b) /\ frames[b].nkey # NilRef) =>
            LET o == clients[b].opts IN
            /\ (clients[b].nonce # "" /\ o.Sig = SigOf(o.Nkey, clients[b].nonce))
                   => frames[b].ret
            /\ \A a \in DOMAIN clients :
                   (/\ a # b
                    /\ clients[a].nonce # ""
                    /\ clients[a].nonce # clients[b].nonce
                    /\ o.Sig = SigOf(o.Nkey, clients[a].nonce)) => ~frames[b].ret

\* one signature was accepted on the connection whose nonce it signs and
\* rejected on the other connection
C14_Witness ==
    \E a, b \in DOMAIN clients :
        /\ a # b
        /\ NkeySelected(a) /\ NkeySelected(b)
        /\ clients[a].opts.Sig = SigOf("UK1", clients[a].nonce)
        /\ clients[b].opts.Sig = clients[a].opts.Sig
        /\ clients[a].nonce # "" /\ clients[b].nonce # ""
        /\ frames[a].ret /\ ~frames[b].ret

----------------------------------------------------------------------------
(* removeUnauthorizedSubs.  A client bound to the permissions of its user  *)
(* subscribes and unsubscribes; a reload applies another record for the    *)
(* user and binds its permissions; removeUnauthorizedSubs then runs for    *)
(* the client, step by step between the client's own operations.           *)

Sids == {"1", "2"}

\* the permission sets a record of the user may carry: no subscribe filter,
\* allow "foo", deny "bar", allow everything and deny "foo"
SweepHeap ==
    [perm |-> (1 :> [Publish |-> Nil, Subscribe |-> Nil])
              @@ (2 :> [Publish |-> Nil, Subscribe |-> 3])
              @@ (5 :> [Publish |-> Nil, Subscribe |-> 6])
              @@ (8 :> [Publish |-> Nil, Subscribe |-> 9]),
     sp |-> (3 :> [Allow |-> 4, Deny |-> Nil])
            @@ (6 :> [Allow |-> Nil, Deny |-> 7])
            @@ (9 :> [Allow |-> 10, Deny |-> 11]),
     arr |-> (4 :> <<"foo">>) @@ (7 :> <<"bar">>)
             @@ (10 :> <<">">>) @@ (11 :> <<"foo">>)]

SweepUser(p) == [Username |-> "alice", Password |-> Str("foo"), Permissions |-> p]
SweepUsers == {SweepUser(p) : p \in {Nil, 1, 2, 5, 8}}

SweepOptions(u) == Options(Nil, NilList, List(<<u>>), Empty, "", Empty, NoCluster, Nil)

\* a subject pattern matches a subject: literally, or as the wildcard ">"
SubjectMatches(pattern, subject) == pattern = subject \/ pattern = ">"

\* allows(operation, subject) on one filter: an absent filter permits; a
\* matching deny pattern rejects; a present allow list must match
allows(h, sp, subject) ==
    IF sp = Nil THEN TRUE
    ELSE LET deny == h.sp[sp].Deny
             allow == h.sp[sp].Allow
         IN IF deny # Nil /\ \E i \in DOMAIN h.arr[deny] : SubjectMatches(h.arr[deny][i], subject)
            THEN FALSE
            ELSE IF allow # Nil
            THEN \E i \in DOMAIN h.arr[allow] : SubjectMatches(h.arr[allow][i], subject)
            ELSE TRUE

\* c.canSubscribe(subject) against the permissions bound to the client
canSubscribe(h, perms, subject) ==
    IF perms = Nil THEN TRUE ELSE allows(h, h.perm[perms].Subscribe, subject)

\* the state in which the client is bound to one of the records
SweepInitOf(records) ==
    /\ \E u \in records :
         LET r == RegisterUser(SweepHeap, NoClient, u) IN
         /\ opts = SweepOptions(u)
         /\ heap = r.h
         /\ clients = [c \in Conns |->
                         [typ |-> "CLIENT",
                          opts |-> [NoClientOpts EXCEPT !.Username = "alice",
                                                        !.Password = Str("foo")],
                          nonce |-> "n1", perms |-> r.perms]]
    /\ LET r == configureAuthorization(opts, NilMap, NilMap, FALSE) IN
         /\ nkeys = r.nkeys
         /\ users = r.users
         /\ authRequired = r.authRequired
    /\ frames = [c \in Conns |-> [NoFrame EXCEPT !.pc = "done", !.ret = TRUE]]
    /\ src = Nil /\ dst = Nil /\ stage = "off" /\ kind = "none"
    /\ cmp = NoCompare
    /\ accepted = [c \in Conns |-> <<>>]
    /\ subs = [c \in Conns |-> NoSubs] /\ sl = {}
    /\ notices = [c \in Conns |-> <<>>] /\ created = 0 /\ sweep = NoSweep
    /\ worker = [c \in Conns |-> NoWorker] /\ cmu = [c \in Conns |-> ""] /\ slMu = ""
    /\ optsMu = {} /\ mu = ""

SweepInit == SweepInitOf(SweepUsers)

\* the worker of the client processes SUB: under c.mu a permitted subject
\* under a sid not in use is entered in c.subs
Subscribe(c, sid, subject) ==
    /\ worker[c].pc = "idle"
    /\ cmu[c] = ""
    /\ sid \notin DOMAIN subs[c]
    /\ created < MaxSubs
    /\ canSubscribe(heap, clients[c].perms, subject)
    /\ LET sub == [client |-> c, subject |-> subject, sid |-> sid, id |-> created + 1] IN
         /\ subs' = [subs EXCEPT ![c] = @ @@ (sid :> sub)]
         /\ worker' = [worker EXCEPT ![c] = [pc |-> "insert", sub |-> sub]]
    /\ cmu' = [cmu EXCEPT ![c] = "worker"]
    /\ created' = created + 1
    /\ UNCHANGED <<serverVars, clients, frames, heap, cloneVars, compareVars,
                   nonceVars, lockVars, sl, notices, sweep, slMu>>

\* the worker of the client processes UNSUB: under c.mu the sid is taken
\* out of c.subs
Unsubscribe(c, sid) ==
    /\ worker[c].pc = "idle"
    /\ cmu[c] = ""
    /\ sid \in DOMAIN subs[c]
    /\ worker' = [worker EXCEPT ![c] = [pc |-> "remove", sub |-> subs[c][sid]]]
    /\ subs' = [subs EXCEPT ![c] = [x \in DOMAIN @ \ {sid} |-> @[x]]]
    /\ cmu' = [cmu EXCEPT ![c] = "worker"]
    /\ UNCHANGED <<serverVars, clients, frames, heap, cloneVars, compareVars,
                   nonceVars, lockVars, sl, notices, created, sweep, slMu>>

\* the worker, still under c.mu, calls s.sl.Insert or s.sl.Remove, which
\* takes the lock of the routing index and changes the index
WorkerIndex(c) ==
    /\ worker[c].pc \in {"insert", "remove"}
    /\ slMu = ""
    /\ slMu' = "worker"
    /\ sl' = IF worker[c].pc = "insert" THEN sl \cup {worker[c].sub}
                                         ELSE sl \ {worker[c].sub}
    /\ worker' = [worker EXCEPT ![c].pc = "unlock"]
    /\ UNCHANGED <<serverVars, clients, frames, heap, cloneVars, compareVars,
                   nonceVars, lockVars, subs, notices, created, sweep, cmu>>

\* the call on the routing index returns, releasing its lock, and the
\* worker releases c.mu
WorkerUnlock(c) ==
    /\ worker[c].pc = "unlock"
    /\ slMu' = ""
    /\ cmu' = [cmu EXCEPT ![c] = ""]
    /\ worker' = [worker EXCEPT ![c] = NoWorker]
    /\ UNCHANGED <<serverVars, clients, frames, heap, cloneVars, compareVars,
                   nonceVars, lockVars, subs, sl, notices, created, sweep>>

\* the worker or the sweep of some other connection calls into the routing
\* index and takes its lock
OtherIndex ==
    /\ slMu = ""
    /\ slMu' = "other"
    /\ UNCHANGED <<serverVars, clients, frames, heap, cloneVars, compareVars,
                   nonceVars, lockVars, subs, sl, notices, created, sweep, worker, cmu>>

\* that call returns, releasing the lock of the index
OtherReturn ==
    /\ slMu = "other"
    /\ slMu' = ""
    /\ UNCHANGED <<serverVars, clients, frames, heap, cloneVars, compareVars,
                   nonceVars, lockVars, subs, sl, notices, created, sweep, worker, cmu>>

\* a reload applies another record for the user of the client and binds
\* its permissions under c.mu; the sweep of the client is then due
ApplyUser(c, u) ==
    /\ sweep.pc \in {"idle", "done"}
    /\ optsMu = {} /\ mu = ""
    /\ cmu[c] = ""
    /\ SweepOptions(u) # opts
    /\ opts' = SweepOptions(u)
    /\ LET r == configureAuthorization(opts', nkeys, users, authRequired) IN
         /\ nkeys' = r.nkeys
         /\ users' = r.users
         /\ authRequired' = r.authRequired
    /\ LET r == RegisterUser(heap, clients[c], u) IN
         /\ heap' = r.h
         /\ clients' = [clients EXCEPT ![c].perms = r.perms]
    /\ sweep' = NoSweep
    /\ UNCHANGED <<frames, cloneVars, compareVars, nonceVars, lockVars, subs, sl,
                   notices, created, worker, cmu, slMu>>

\* removeUnauthorizedSubs is called for the client
SweepEnter(c) ==
    /\ sweep.pc \in {"idle", "done"}
    /\ sweep' = [NoSweep EXCEPT !.pc = "enter", !.c = c, !.base = Len(notices[c])]
    /\ UNCHANGED <<serverVars, clients, frames, heap, cloneVars, compareVars,
                   nonceVars, lockVars, subs, sl, notices, created, worker, cmu, slMu>>

\* c.mu.Lock() at the head of removeUnauthorizedSubs
SweepLock(c) ==
    /\ sweep.pc = "enter" /\ sweep.c = c
    /\ cmu[c] = ""
    /\ cmu' = [cmu EXCEPT ![c] = "sweep"]
    /\ sweep' = [sweep EXCEPT !.pc = "locked"]
    /\ UNCHANGED <<serverVars, clients, frames, heap, cloneVars, compareVars,
                   nonceVars, lockVars, subs, sl, notices, created, worker, slMu>>

\* slip: c.mu stays locked after c.subs was copied
SweepSnapshot_HoldLock(c) ==
    /\ sweep.pc = "locked" /\ sweep.c = c
    /\ sweep' = IF clients[c].perms = Nil
                THEN [sweep EXCEPT !.pc = "done"]
                ELSE [sweep EXCEPT !.pc = "loop", !.subs = subs[c], !.todo = DOMAIN subs[c]]
    /\ UNCHANGED <<serverVars, clients, frames, heap, cloneVars, compareVars,
                   nonceVars, lockVars, subs, sl, notices, created, worker, cmu, slMu>>

\* the first section under c.mu: without permissions the function returns,
\* else c.subs is copied; c.mu.Unlock() on both paths
SweepSnapshot(c) ==
    /\ sweep.pc = "locked" /\ sweep.c = c
    /\ sweep' = IF clients[c].perms = Nil
                THEN [sweep EXCEPT !.pc = "done"]
                ELSE [sweep EXCEPT !.pc = "loop", !.subs = subs[c], !.todo = DOMAIN subs[c]]
    /\ cmu' = [cmu EXCEPT ![c] = ""]
    /\ UNCHANGED <<serverVars, clients, frames, heap, cloneVars, compareVars,
                   nonceVars, lockVars, subs, sl, notices, created, worker, slMu>>

\* one turn of the loop over the copy: c.canSubscribe(sub.subject)
SweepSub(c, sid) ==
    /\ sweep.pc = "loop" /\ sweep.c = c
    /\ sid \in sweep.todo
    /\ sweep' = IF canSubscribe(heap, clients[c].perms, sweep.subs[sid].subject)
                THEN [sweep EXCEPT !.todo = @ \ {sid}]
                ELSE [sweep EXCEPT !.pc = "remove", !.sid = sid]
    /\ UNCHANGED <<serverVars, clients, frames, heap, cloneVars, compareVars,
                   nonceVars, lockVars, subs, sl, notices, created, worker, cmu, slMu>>

\* s.sl.Remove(sub) is called and takes the lock of the routing index
SweepRemove(c) ==
    /\ sweep.pc = "remove" /\ sweep.c = c
    /\ slMu = ""
    /\ slMu' = "sweep"
    /\ sweep' = [sweep EXCEPT !.pc = "removing"]
    /\ UNCHANGED <<serverVars, clients, frames, heap, cloneVars, compareVars,
                   nonceVars, lockVars, subs, sl, notices, created, worker, cmu>>

\* s.sl.Remove(sub) takes the subscription out of the index, releases the
\* lock of the index and returns
SweepRemoved(c) ==
    /\ sweep.pc = "removing" /\ sweep.c = c
    /\ sl' = sl \ {sweep.subs[sweep.sid]}
    /\ slMu' = ""
    /\ sweep' = [sweep EXCEPT !.pc = "relock"]
    /\ UNCHANGED <<serverVars, clients, frames, heap, cloneVars, compareVars,
                   nonceVars, lockVars, subs, notices, created, worker, cmu>>

\* c.mu.Lock() before the delete
SweepRelock(c) ==
    /\ sweep.pc = "relock" /\ sweep.c = c
    /\ cmu[c] = ""
    /\ cmu' = [cmu EXCEPT ![c] = "sweep"]
    /\ sweep' = [sweep EXCEPT !.pc = "delete"]
    /\ UNCHANGED <<serverVars, clients, frames, heap, cloneVars, compareVars,
                   nonceVars, lockVars, subs, sl, notices, created, worker, slMu>>

\* delete(c.subs, sid) and c.mu.Unlock()
SweepDelete(c) ==
    /\ sweep.pc = "delete" /\ sweep.c = c
    /\ subs' = [subs EXCEPT ![c] = [x \in DOMAIN @ \ {sweep.sid} |-> @[x]]]
    /\ cmu' = [cmu EXCEPT ![c] = ""]
    /\ sweep' = [sweep EXCEPT !.pc = "notify"]
    /\ UNCHANGED <<serverVars, clients, frames, heap, cloneVars, compareVars,
                   nonceVars, lockVars, sl, notices, created, worker, slMu>>

\* c.sendErr("Permissions Violation for Subscription to ... (sid ...)")
SweepNotify(c) ==
    /\ sweep.pc = "notify" /\ sweep.c = c
    /\ notices' = [notices EXCEPT ![c] =
                     Append(@, [subject |-> sweep.subs[sweep.sid].subject,
                                sid |-> sweep.subs[sweep.sid].sid])]
    /\ sweep' = [sweep EXCEPT !.pc = "loop", !.todo = @ \ {sweep.sid}]
    /\ UNCHANGED <<serverVars, clients, frames, heap, cloneVars, compareVars,
                   nonceVars, lockVars, subs, sl, created, worker, cmu, slMu>>

\* the loop is over and removeUnauthorizedSubs returns
SweepReturn(c) ==
    /\ sweep.pc = "loop" /\ sweep.c = c
    /\ sweep.todo = {}
    /\ sweep' = [sweep EXCEPT !.pc = "done"]
    /\ UNCHANGED <<serverVars, clients, frames, heap, cloneVars, compareVars,
                   nonceVars, lockVars, subs, sl, notices, created, worker, cmu, slMu>>

SweepNext ==
    \/ \E c \in Conns, sid \in Sids, subject \in Subjects : Subscribe(c, sid, subject)
    \/ \E c \in Conns, sid \in Sids : Unsubscribe(c, sid)
    \/ \E c \in Conns : WorkerIndex(c)
    \/ \E c \in Conns : WorkerUnlock(c)
    \/ \E c \in Conns, u \in SweepUsers : ApplyUser(c, u)
    \/ \E c \in Conns : SweepEnter(c)
    \/ \E c \in Conns : SweepLock(c)
    \/ \E c \in Conns : SweepSnapshot(c)
    \/ \E c \in Conns, sid \in Sids : SweepSub(c, sid)
    \/ \E c \in Conns : SweepRemove(c)
    \/ \E c \in Conns : SweepRemoved(c)
    \/ \E c \in Conns : SweepRelock(c)
    \/ \E c \in Conns : SweepDelete(c)
    \/ \E c \in Conns : SweepNotify(c)
    \/ \E c \in Conns : SweepReturn(c)

SpecSweep == SweepInit /\ [][SweepNext]_vars

\* the subscription is permitted by what is bound to its client
Permitted(sub) == canSubscribe(heap, clients[sub.client].perms, sub.subject)
\* the notices sent since removeUnauthorizedSubs was entered
SweepSent == SubSeq(notices[sweep.c], sweep.base + 1, Len(notices[sweep.c]))
\* the subscriptions of the copy that are not permitted
SweepFound == {sid \in DOMAIN sweep.subs : ~Permitted(sweep.subs[sid])}

(* C16, as stated: when removeUnauthorizedSubs has returned for a client   *)
(* whose permissions were bound before it was entered, no subscription of  *)
(* the client with a subject that is not permitted is left in c.subs or in *)
(* the routing index, and the client was sent exactly one notice for each  *)
(* subscription the sweep found not permitted and removed, naming its      *)
(* subject and sid.                                                        *)
C16_UnauthorizedSubsRemoved ==
    sweep.pc = "done" =>
        /\ \A sid \in DOMAIN subs[sweep.c] : Permitted(subs[sweep.c][sid])
        /\ \A sub \in sl : sub.client = sweep.c => Permitted(sub)
        /\ Len(SweepSent) = Cardinality(SweepFound)
        /\ \A sid \in SweepFound :
              \E i \in DOMAIN SweepSent :
                 SweepSent[i] = [subject |-> sweep.subs[sid].subject, sid |-> sid]

(* C17, as stated: no step of removeUnauthorizedSubs takes a permitted     *)
(* subscription out of c.subs or out of the routing index or sends a       *)
(* notice about one, and the connection stays open.                        *)
C17_PermittedSubsUntouched ==
    [][sweep' # sweep =>
         \A c \in DOMAIN clients :
            /\ \A sid \in DOMAIN subs[c] :
                  Permitted(subs[c][sid]) =>
                      sid \in DOMAIN subs'[c] /\ subs'[c][sid] = subs[c][sid]
            /\ \A sub \in sl : Permitted(sub) => sub \in sl'
            /\ \A i \in DOMAIN notices'[c] :
                  i > Len(notices[c]) =>
                      ~canSubscribe(heap, clients[c].perms, notices'[c][i].subject)
            /\ clients'[c].typ = clients[c].typ]_vars

\* the subscriptions in c.subs of the client
SubsOf(c) == {subs[c][sid] : sid \in DOMAIN subs[c]}

\* no call of removeUnauthorizedSubs and no SUB or UNSUB is under way
SweepQuiet == sweep.pc = "done" /\ \A c \in DOMAIN worker : worker[c].pc = "idle"

(* C23, as stated: with the client's worker unsubscribing and subscribing  *)
(* again, also under a sid in use before, between the copy of c.subs and   *)
(* the delete, a delete of removeUnauthorizedSubs takes out of c.subs only *)
(* the subscription that was examined and found not permitted, never one   *)
(* that is permitted; and when the sweep has returned and no SUB or UNSUB  *)
(* is under way, a subscription of the client is in the routing index if   *)
(* and only if it is in c.subs.                                            *)
C23_SweepDeletesWhatItExamined ==
    /\ [](SweepQuiet => {sub \in sl : sub.client = sweep.c} = SubsOf(sweep.c))
    /\ [][\A c \in DOMAIN subs : \A sid \in DOMAIN subs[c] :
             (sweep.pc = "delete" /\ sweep'.pc = "notify" /\ sid \notin DOMAIN subs'[c]) =>
                 /\ subs[c][sid] = sweep.subs[sweep.sid]
                 /\ ~Permitted(subs[c][sid])]_vars

----------------------------------------------------------------------------
(* The sweep under the scheduling of the program: every goroutine that can *)
(* take a step takes one, and a goroutine waiting for a sync.Mutex gets it *)
(* when it is released often enough (the mutex hands over to a starving    *)
(* waiter).  Whether a client sends SUB or UNSUB, whether a reload happens *)
(* and whether removeUnauthorizedSubs is called is left open.              *)
(* The records of the user are the two that revoke each other's subjects:   *)
(* deny "bar", and allow everything but deny "foo".  Other connections use *)
(* the routing index at the same time.                                     *)
SweepFairUsers == {SweepUser(5), SweepUser(8)}

SweepFairInit == SweepInitOf(SweepFairUsers)

SweepFairNext ==
    \/ \E c \in Conns, sid \in Sids, subject \in Subjects : Subscribe(c, sid, subject)
    \/ \E c \in Conns, sid \in Sids : Unsubscribe(c, sid)
    \/ \E c \in Conns : WorkerIndex(c)
    \/ \E c \in Conns : WorkerUnlock(c)
    \/ OtherIndex
    \/ OtherReturn
    \/ \E c \in Conns, u \in SweepFairUsers : ApplyUser(c, u)
    \/ \E c \in Conns : SweepEnter(c)
    \/ \E c \in Conns : SweepLock(c)
    \/ \E c \in Conns : SweepSnapshot(c)
    \/ \E c \in Conns, sid \in Sids : SweepSub(c, sid)
    \/ \E c \in Conns : SweepRemove(c)
    \/ \E c \in Conns : SweepRemoved(c)
    \/ \E c \in Conns : SweepRelock(c)
    \/ \E c \in Conns : SweepDelete(c)
    \/ \E c \in Conns : SweepNotify(c)
    \/ \E c \in Conns : SweepReturn(c)

SweepFairness ==
    /\ WF_vars(OtherReturn)
    /\ \A c \in Conns :
        /\ SF_vars(WorkerIndex(c))
        /\ WF_vars(WorkerUnlock(c))
        /\ SF_vars(SweepLock(c))
        /\ WF_vars(SweepSnapshot(c))
        /\ WF_vars(\E sid \in Sids : SweepSub(c, sid))
        /\ SF_vars(SweepRemove(c))
        /\ WF_vars(SweepRemoved(c))
        /\ SF_vars(SweepRelock(c))
        /\ WF_vars(SweepDelete(c))
        /\ WF_vars(SweepNotify(c))
        /\ WF_vars(SweepReturn(c))

SpecSweepFair == SweepFairInit /\ [][SweepFairNext]_vars /\ SweepFairness

\* removeUnauthorizedSubs holds c.mu only in its two sections on c.subs and
\* holds neither c.mu in the call of s.sl.Remove nor the lock of the index
\* outside of it
SweepLockDiscipline ==
    /\ \A c \in DOMAIN cmu :
          cmu[c] = "sweep" => (sweep.c = c /\ sweep.pc \in {"locked", "delete"})
    /\ slMu = "sweep" => sweep.pc = "removing"
    /\ sweep.pc \in {"remove", "removing"} => cmu[sweep.c] # "sweep"

(* C21: removeUnauthorizedSubs holds c.mu only while it copies c.subs and  *)
(* while it deletes from c.subs, never while s.sl.Remove runs under the    *)
(* lock of the routing index; and every call of it, running between the    *)
(* steps of the client's worker, returns.                                  *)
C21_SweepLocksAndTermination ==
    /\ []SweepLockDiscipline
    /\ (sweep.pc \notin {"idle", "done"}) ~> (sweep.pc = "done")

\* removeUnauthorizedSubs is inside s.sl.Remove, holding the lock of the
\* index, while the worker of the client holds c.mu and waits for the index
C21_Witness ==
    /\ sweep.pc = "removing" /\ slMu = "sweep"
    /\ cmu[sweep.c] = "worker" /\ worker[sweep.c].pc \in {"insert", "remove"}

====
